---- MODULE Spec2Model ----
(***************************************************************************)
(* Model of certbot/plugins/dns_common.py: the DNSAuthenticator base class *)
(* (perform / cleanup around the provider hooks _setup_credentials,        *)
(* _perform and _cleanup), CredentialsConfiguration.require and            *)
(* base_domain_name_guesses.                                               *)
(*                                                                         *)
(* Execution is single threaded: at most one call of perform or cleanup is *)
(* active, on the instance held in `self'.  Each call is split at the      *)
(* points where it calls out to the provider hooks, whose outcome (normal  *)
(* return or PluginError) is chosen nondeterministically.                  *)
(***************************************************************************)
EXTENDS Integers, Sequences, FiniteSets, TLC

\* ------------------------------------------------------------------ bounds
MaxBatch == 2          \* longest list of achalls handed to perform / cleanup
MaxDomainLen == 4      \* longest domain string handed to base_domain_name_guesses
NumVars == 2           \* number of variable names a required_variables dict draws on

\* --------------------------------------------------------------- constants
DefaultPropagationSeconds == 10

Instances == {"auth1", "auth2"}
Domains == {"a.example", "b.example"}
Tokens == {"t1"}

\* An annotated challenge (achall): the domain and the account-key bound token.
Challenges == [domain : Domains, token : Tokens]

\* achall.validation_domain_name(domain)
ValidationDomainName(achall) == <<"_acme-challenge", achall.domain>>

\* achall.validation(achall.account_key)
Validation(achall) == <<"validation", achall.token, achall.domain>>

\* achall.response(achall.account_key)
Response(achall) == <<"response", achall.token, achall.domain>>

\* The (domain, validation_domain_name, validation) triple of a challenge.
RecordArgs(achall) == <<achall.domain, ValidationDomainName(achall), Validation(achall)>>

NoArgs == <<"", <<>>, <<>>>>

RECURSIVE SeqsUpTo(_, _)
SeqsUpTo(S, n) ==
  IF n = 0 THEN {<<>>}
  ELSE LET shorter == SeqsUpTo(S, n - 1)
       IN shorter \cup {Append(s, x) : s \in {t \in shorter : Len(t) = n - 1}, x \in S}

Batches == SeqsUpTo(Challenges, MaxBatch)

VARIABLES
  attempt_cleanup,      \* [Instances -> BOOLEAN]: self._attempt_cleanup
  propagation_seconds,  \* self.conf('propagation-seconds')
  pc,                   \* position of the active call, "idle" when none
  op,                   \* the active or last call: "none", "perform", "cleanup"
  self,                 \* instance of the active or last call
  achalls,              \* argument of the active or last call
  idx,                  \* 1-based position of the for loop in achalls
  responses,            \* the local list `responses' of perform
  status,               \* "running", "returned" or "raised"
  returned,             \* value returned by the last call that returned
  trace,                \* hook calls and sleeps of the active or last call
  ever_performed,       \* history: [Instances -> BOOLEAN], perform was invoked
  setup_passed,         \* history: [Instances -> BOOLEAN], a perform got past line 48
  attempted,            \* history: set of <<instance, args>> handed to _perform
  confobj,              \* CredentialsConfiguration.confobj
  mapper,               \* CredentialsConfiguration.mapper
  required_variables,   \* argument of require: sequence of [var, desc]
  require_result,       \* <<outcome>> of require, <<>> before the call
  require_previous,     \* <<outcome>> of the call of require before the last one
  conf_got,             \* per variable, <<what conf(var) returned>>, <<>> before the call
  domain,               \* argument of base_domain_name_guesses
  guesses,              \* <<result>> of base_domain_name_guesses, <<>> before the call
  fs,                   \* the file system: what stat and lstat report for each path
  file_content,         \* what configobj.ConfigObj parses out of a regular file
  config,               \* self.config: the value of each configuration key
  last                  \* the last call on configuration and files, and what it did

authVars == <<attempt_cleanup, propagation_seconds, pc, op, self, achalls, idx,
              responses, status, returned, trace, ever_performed, setup_passed,
              attempted>>
credVars == <<confobj, mapper, required_variables, require_result, require_previous, conf_got>>
guessVars == <<domain, guesses>>
fileVars == <<fs, file_content, config, last>>
vars == <<authVars, credVars, guessVars, fileVars>>

Event(call, args, secs, ok) == [call |-> call, args |-> args, secs |-> secs, ok |-> ok]

\* ------------------------------------------------------- DNSAuthenticator

InitAuth ==
  /\ attempt_cleanup = [i \in Instances |-> FALSE]
  /\ propagation_seconds \in {0, DefaultPropagationSeconds}
  /\ pc = "idle"
  /\ op = "none"
  /\ self \in Instances
  /\ achalls = <<>>
  /\ idx = 1
  /\ responses = <<>>
  /\ status = "returned"
  /\ returned = <<>>
  /\ trace = <<>>
  /\ ever_performed = [i \in Instances |-> FALSE]
  /\ setup_passed = [i \in Instances |-> FALSE]
  /\ attempted = {}

\* perform(self, achalls) is entered.
PerformCall ==
  /\ pc = "idle"
  /\ \E inst \in Instances, batch \in Batches :
       /\ self' = inst
       /\ achalls' = batch
       /\ ever_performed' = [ever_performed EXCEPT ![inst] = TRUE]
  /\ op' = "perform"
  /\ pc' = "perform_setup"
  /\ status' = "running"
  /\ idx' = 1
  /\ responses' = <<>>
  /\ trace' = <<>>
  /\ returned' = <<>>
  /\ UNCHANGED <<attempt_cleanup, propagation_seconds, setup_passed, attempted>>

\* A variant that sets the flag before the credentials are set up.
PerformSetupCredentials_FlagFirst ==
  /\ pc = "perform_setup"
  /\ attempt_cleanup' = [attempt_cleanup EXCEPT ![self] = TRUE]
  /\ \E ok \in BOOLEAN :
       /\ trace' = Append(trace, Event("setup", NoArgs, 0, ok))
       /\ IF ok
          THEN /\ setup_passed' = [setup_passed EXCEPT ![self] = TRUE]
               /\ responses' = <<>>
               /\ idx' = 1
               /\ pc' = "perform_loop"
               /\ UNCHANGED status
          ELSE /\ pc' = "idle"
               /\ status' = "raised"
               /\ UNCHANGED <<setup_passed, responses, idx>>
  /\ UNCHANGED <<propagation_seconds, op, self, achalls, returned, ever_performed, attempted>>

\* A variant that sets the flag on the class, that is for every instance.
PerformSetupCredentials_ClassFlag ==
  /\ pc = "perform_setup"
  /\ \E ok \in BOOLEAN :
       /\ trace' = Append(trace, Event("setup", NoArgs, 0, ok))
       /\ IF ok
          THEN /\ setup_passed' = [setup_passed EXCEPT ![self] = TRUE]
               /\ attempt_cleanup' = [i \in Instances |-> TRUE]
               /\ responses' = <<>>
               /\ idx' = 1
               /\ pc' = "perform_loop"
               /\ UNCHANGED status
          ELSE /\ pc' = "idle"
               /\ status' = "raised"
               /\ UNCHANGED <<setup_passed, attempt_cleanup, responses, idx>>
  /\ UNCHANGED <<propagation_seconds, op, self, achalls, returned, ever_performed, attempted>>

\* A variant that carries on after _setup_credentials raised.
PerformSetupCredentials_Swallow ==
  /\ pc = "perform_setup"
  /\ \E ok \in BOOLEAN :
       /\ trace' = Append(trace, Event("setup", NoArgs, 0, ok))
       /\ setup_passed' = [setup_passed EXCEPT ![self] = TRUE]
  /\ attempt_cleanup' = [attempt_cleanup EXCEPT ![self] = TRUE]
  /\ responses' = <<>>
  /\ idx' = 1
  /\ pc' = "perform_loop"
  /\ UNCHANGED <<propagation_seconds, op, self, achalls, status, returned,
                 ever_performed, attempted>>

\* A variant that sets the flag of the other instances as well.
PerformSetupCredentials_SharedFlag ==
  /\ pc = "perform_setup"
  /\ \E ok \in BOOLEAN :
       /\ trace' = Append(trace, Event("setup", NoArgs, 0, ok))
       /\ IF ok
          THEN /\ setup_passed' = [setup_passed EXCEPT ![self] = TRUE]
               /\ attempt_cleanup' = [i \in Instances |-> TRUE]
               /\ responses' = <<>>
               /\ idx' = 1
               /\ pc' = "perform_loop"
               /\ UNCHANGED status
          ELSE /\ pc' = "idle"
               /\ status' = "raised"
               /\ UNCHANGED <<setup_passed, attempt_cleanup, responses, idx>>
  /\ UNCHANGED <<propagation_seconds, op, self, achalls, returned, ever_performed, attempted>>

\* Lines 48-52: self._setup_credentials() returns or raises; when it returns
\* the flag is set and the response list starts empty.
PerformSetupCredentials ==
  /\ pc = "perform_setup"
  /\ \E ok \in BOOLEAN :
       /\ trace' = Append(trace, Event("setup", NoArgs, 0, ok))
       /\ IF ok
          THEN /\ setup_passed' = [setup_passed EXCEPT ![self] = TRUE]
               /\ attempt_cleanup' = [attempt_cleanup EXCEPT ![self] = TRUE]
               /\ responses' = <<>>
               /\ idx' = 1
               /\ pc' = "perform_loop"
               /\ UNCHANGED status
          ELSE /\ pc' = "idle"
               /\ status' = "raised"
               /\ UNCHANGED <<setup_passed, attempt_cleanup, responses, idx>>
  /\ UNCHANGED <<propagation_seconds, op, self, achalls, returned, ever_performed, attempted>>

\* A variant that puts each new response at the front of the list.
PerformIteration_Prepend ==
  /\ pc = "perform_loop"
  /\ idx <= Len(achalls)
  /\ LET achall == achalls[idx]
     IN /\ attempted' = attempted \cup {<<self, RecordArgs(achall)>>}
        /\ \E ok \in BOOLEAN :
             /\ trace' = Append(trace, Event("create", RecordArgs(achall), 0, ok))
             /\ IF ok
                THEN /\ responses' = <<Response(achall)>> \o responses
                     /\ idx' = idx + 1
                     /\ UNCHANGED <<pc, status>>
                ELSE /\ pc' = "idle"
                     /\ status' = "raised"
                     /\ UNCHANGED <<responses, idx>>
  /\ UNCHANGED <<attempt_cleanup, propagation_seconds, op, self, achalls, returned,
                 ever_performed, setup_passed>>

\* A variant that goes on to the next challenge after _perform raised.
PerformIteration_Continue ==
  /\ pc = "perform_loop"
  /\ idx <= Len(achalls)
  /\ LET achall == achalls[idx]
     IN /\ attempted' = attempted \cup {<<self, RecordArgs(achall)>>}
        /\ \E ok \in BOOLEAN :
             /\ trace' = Append(trace, Event("create", RecordArgs(achall), 0, ok))
             /\ responses' = IF ok THEN Append(responses, Response(achall)) ELSE responses
        /\ idx' = idx + 1
  /\ UNCHANGED <<attempt_cleanup, propagation_seconds, pc, op, self, achalls, status,
                 returned, ever_performed, setup_passed>>

\* Lines 53-59: one pass of the for loop of perform.  self._perform either
\* returns, and the challenge's response is appended, or raises out of perform.
PerformIteration ==
  /\ pc = "perform_loop"
  /\ idx <= Len(achalls)
  /\ LET achall == achalls[idx]
     IN /\ attempted' = attempted \cup {<<self, RecordArgs(achall)>>}
        /\ \E ok \in BOOLEAN :
             /\ trace' = Append(trace, Event("create", RecordArgs(achall), 0, ok))
             /\ IF ok
                THEN /\ responses' = Append(responses, Response(achall))
                     /\ idx' = idx + 1
                     /\ UNCHANGED <<pc, status>>
                ELSE /\ pc' = "idle"
                     /\ status' = "raised"
                     /\ UNCHANGED <<responses, idx>>
  /\ UNCHANGED <<attempt_cleanup, propagation_seconds, op, self, achalls, returned,
                 ever_performed, setup_passed>>

\* A variant that does not sleep when there was no challenge.
PerformSleep_SkipEmpty ==
  /\ pc = "perform_loop"
  /\ idx > Len(achalls)
  /\ trace' = IF achalls = <<>> THEN trace
              ELSE Append(trace, Event("sleep", NoArgs, propagation_seconds, TRUE))
  /\ pc' = "perform_return"
  /\ UNCHANGED <<attempt_cleanup, propagation_seconds, op, self, achalls, idx, responses,
                 status, returned, ever_performed, setup_passed, attempted>>

\* Line 64: the loop is exhausted; sleep(self.conf('propagation-seconds')).
PerformSleep ==
  /\ pc = "perform_loop"
  /\ idx > Len(achalls)
  /\ trace' = Append(trace, Event("sleep", NoArgs, propagation_seconds, TRUE))
  /\ pc' = "perform_return"
  /\ UNCHANGED <<attempt_cleanup, propagation_seconds, op, self, achalls, idx, responses,
                 status, returned, ever_performed, setup_passed, attempted>>

\* Line 66: return responses.
PerformReturn ==
  /\ pc = "perform_return"
  /\ returned' = responses
  /\ status' = "returned"
  /\ pc' = "idle"
  /\ UNCHANGED <<attempt_cleanup, propagation_seconds, op, self, achalls, idx, responses,
                 trace, ever_performed, setup_passed, attempted>>

\* A variant of cleanup without the test of the flag.
CleanupCall_NoGuard ==
  /\ pc = "idle"
  /\ \E inst \in Instances, batch \in Batches :
       /\ self' = inst
       /\ achalls' = batch
  /\ op' = "cleanup"
  /\ trace' = <<>>
  /\ idx' = 1
  /\ responses' = <<>>
  /\ pc' = "cleanup_loop"
  /\ status' = "running"
  /\ returned' = <<>>
  /\ UNCHANGED <<attempt_cleanup, propagation_seconds, ever_performed, setup_passed, attempted>>

\* Lines 68-69: cleanup(self, achalls) is entered and tests the flag; with the
\* flag unset it returns None at once.
CleanupCall ==
  /\ pc = "idle"
  /\ \E inst \in Instances, batch \in Batches :
       /\ self' = inst
       /\ achalls' = batch
       /\ IF attempt_cleanup[inst]
          THEN /\ pc' = "cleanup_loop"
               /\ status' = "running"
          ELSE /\ pc' = "idle"
               /\ status' = "returned"
  /\ op' = "cleanup"
  /\ returned' = <<>>
  /\ trace' = <<>>
  /\ idx' = 1
  /\ responses' = <<>>
  /\ UNCHANGED <<attempt_cleanup, propagation_seconds, ever_performed, setup_passed, attempted>>

\* A variant that steps over the challenge after each one it deletes.
CleanupIteration_Skip ==
  /\ pc = "cleanup_loop"
  /\ idx <= Len(achalls)
  /\ LET achall == achalls[idx]
     IN \E ok \in BOOLEAN :
          /\ trace' = Append(trace, Event("delete", RecordArgs(achall), 0, ok))
          /\ IF ok
             THEN /\ idx' = idx + 2
                  /\ UNCHANGED <<pc, status>>
             ELSE /\ pc' = "idle"
                  /\ status' = "raised"
                  /\ UNCHANGED idx
  /\ UNCHANGED <<attempt_cleanup, propagation_seconds, op, self, achalls, responses,
                 returned, ever_performed, setup_passed, attempted>>

\* A variant that catches what _cleanup raises and goes on.
CleanupIteration_Catch ==
  /\ pc = "cleanup_loop"
  /\ idx <= Len(achalls)
  /\ LET achall == achalls[idx]
     IN \E ok \in BOOLEAN :
          trace' = Append(trace, Event("delete", RecordArgs(achall), 0, ok))
  /\ idx' = idx + 1
  /\ UNCHANGED <<attempt_cleanup, propagation_seconds, pc, op, self, achalls, responses,
                 status, returned, ever_performed, setup_passed, attempted>>

\* Lines 70-75: one pass of the for loop of cleanup.  self._cleanup either
\* returns or raises out of cleanup (nothing in cleanup catches it).
CleanupIteration ==
  /\ pc = "cleanup_loop"
  /\ idx <= Len(achalls)
  /\ LET achall == achalls[idx]
     IN \E ok \in BOOLEAN :
          /\ trace' = Append(trace, Event("delete", RecordArgs(achall), 0, ok))
          /\ IF ok
             THEN /\ idx' = idx + 1
                  /\ UNCHANGED <<pc, status>>
             ELSE /\ pc' = "idle"
                  /\ status' = "raised"
                  /\ UNCHANGED idx
  /\ UNCHANGED <<attempt_cleanup, propagation_seconds, op, self, achalls, responses,
                 returned, ever_performed, setup_passed, attempted>>

\* A variant that clears the flag when cleanup is done.
CleanupReturn_Reset ==
  /\ pc = "cleanup_loop"
  /\ idx > Len(achalls)
  /\ returned' = <<>>
  /\ status' = "returned"
  /\ pc' = "idle"
  /\ attempt_cleanup' = [attempt_cleanup EXCEPT ![self] = FALSE]
  /\ UNCHANGED <<propagation_seconds, op, self, achalls, idx, responses,
                 trace, ever_performed, setup_passed, attempted>>

\* End of cleanup: the loop is exhausted and cleanup returns None.
CleanupReturn ==
  /\ pc = "cleanup_loop"
  /\ idx > Len(achalls)
  /\ returned' = <<>>
  /\ status' = "returned"
  /\ pc' = "idle"
  /\ UNCHANGED <<attempt_cleanup, propagation_seconds, op, self, achalls, idx, responses,
                 trace, ever_performed, setup_passed, attempted>>

NextAuth ==
  \/ PerformCall
  \/ PerformSetupCredentials
  \/ PerformIteration
  \/ PerformSleep
  \/ PerformReturn
  \/ CleanupCall
  \/ CleanupIteration
  \/ CleanupReturn

\* ------------------------------------------- CredentialsConfiguration

VarNames == <<"api_key", "api_secret", "email", "zone">>
DestNames == <<"dns_api_key", "dns_api_secret", "dns_email", "dns_zone">>

\* Variable names that may be required, and the keys a file may hold.
Vars == {VarNames[n] : n \in 1..NumVars}
Keys == Vars \cup {DestNames[n] : n \in 1..NumVars}
Values == {"", "s3cret"}
Descriptions == {"API key", "API secret"}
Filename == "/etc/credentials.ini"

\* The default mapper of __init__, lambda x: x.
IdentityMapper == [var \in Vars |-> var]

\* The mapper _configure_credentials passes, self.dest: the plugin's prefix
\* put before the variable's name.
DestMapper == [var \in Vars |-> DestNames[CHOOSE n \in 1..NumVars : VarNames[n] = var]]

Mappers == {IdentityMapper, DestMapper}

\* Parsed files: a mapping from some of the keys to their values.
ConfObjs == UNION {[present -> Values] : present \in SUBSET Keys}

\* required_variables in its order of iteration: distinct variables, each
\* with the description to display.
RequiredDicts ==
  {req \in SeqsUpTo([var : Vars, desc : Descriptions], NumVars) :
     \A m, n \in 1..Len(req) : m # n => req[m].var # req[n].var}

\* self.mapper(var) in self.confobj
Has(conf, map, var) == map[var] \in DOMAIN conf

\* A variant that looks the variable up under its own name.
Get_Unmapped(conf, map, var) == IF var \in DOMAIN conf THEN <<conf[var]>> ELSE <<>>

\* self.confobj.get(self.mapper(var)): <<value>>, or <<>> standing for None.
Get(conf, map, var) == IF map[var] \in DOMAIN conf THEN <<conf[map[var]]>> ELSE <<>>

\* Python's `not x' on what Get yields: None and the empty string are false.
Not(got) == got = <<>> \/ got = <<"">>

Message(kind, key, desc) == [kind |-> kind, key |-> key, desc |-> desc]

\* A variant that stops at the first variable that fails.
RECURSIVE RequireMessages_FailFast(_, _, _)
RequireMessages_FailFast(conf, map, req) ==
  IF req = <<>> THEN <<>>
  ELSE LET var == Head(req).var
           desc == Head(req).desc
       IN IF ~Has(conf, map, var) THEN <<Message("not found", map[var], desc)>>
          ELSE IF Not(Get(conf, map, var)) THEN <<Message("not set", map[var], desc)>>
          ELSE RequireMessages_FailFast(conf, map, Tail(req))

\* Lines 233-241: the list `messages' built by the loop of require.
RECURSIVE RequireMessages(_, _, _)
RequireMessages(conf, map, req) ==
  IF req = <<>> THEN <<>>
  ELSE LET var == Head(req).var
           desc == Head(req).desc
           message == IF ~Has(conf, map, var)
                      THEN <<Message("not found", map[var], desc)>>
                      ELSE IF Not(Get(conf, map, var))
                      THEN <<Message("not set", map[var], desc)>>
                      ELSE <<>>
       IN message \o RequireMessages(conf, map, Tail(req))

\* Lines 243-250: require raises one PluginError made of all the messages
\* and the file's name when there is any message, and returns None otherwise.
RequireOutcome(conf, map, req) ==
  LET messages == RequireMessages(conf, map, req)
  IN IF messages # <<>>
     THEN [raised |-> TRUE,
           noun |-> IF Len(messages) = 1 THEN "property" ELSE "properties",
           filename |-> Filename,
           messages |-> messages]
     ELSE [raised |-> FALSE, noun |-> "", filename |-> "", messages |-> <<>>]

NotCalled == <<>>

InitCred ==
  /\ confobj \in ConfObjs
  /\ mapper \in Mappers
  /\ required_variables \in RequiredDicts
  /\ require_result = NotCalled
  /\ require_previous = NotCalled
  /\ conf_got = [var \in Vars |-> NotCalled]

\* credentials_configuration.require(required_variables), a first time and
\* once again.
Require ==
  /\ require_previous = NotCalled
  /\ require_result' = <<RequireOutcome(confobj, mapper, required_variables)>>
  /\ require_previous' = require_result
  /\ UNCHANGED <<confobj, mapper, required_variables, conf_got>>

\* Lines 252-260: credentials_configuration.conf(var)
Conf ==
  \E var \in Vars :
    /\ conf_got[var] = NotCalled
    /\ conf_got' = [conf_got EXCEPT ![var] = <<Get(confobj, mapper, var)>>]
    /\ UNCHANGED <<confobj, mapper, required_variables, require_result, require_previous>>

NextCred == Require \/ Conf

InitCredIdle ==
  /\ confobj = <<>>
  /\ mapper = <<>>
  /\ required_variables = <<>>
  /\ require_result = NotCalled
  /\ require_previous = NotCalled
  /\ conf_got = [var \in Vars |-> NotCalled]

\* ------------------------------------------------ base_domain_name_guesses

Characters == {"a", "b", "."}

\* Domain names as strings: sequences of characters.
DomainStrings == SeqsUpTo(Characters, MaxDomainLen)

FirstDot(str) == CHOOSE k \in 1..Len(str) : str[k] = "." /\ \A j \in 1..(k - 1) : str[j] # "."

\* str.split('.')
RECURSIVE Split(_)
Split(str) ==
  IF \A k \in 1..Len(str) : str[k] # "." THEN <<str>>
  ELSE LET k == FirstDot(str)
       IN <<SubSeq(str, 1, k - 1)>> \o Split(SubSeq(str, k + 1, Len(str)))

\* '.'.join(fragments)
RECURSIVE Join(_)
Join(fragments) ==
  IF fragments = <<>> THEN <<>>
  ELSE IF Len(fragments) = 1 THEN fragments[1]
  ELSE fragments[1] \o <<".">> \o Join(Tail(fragments))

\* A variant whose range starts one fragment late.
base_domain_name_guesses_SkipFirst(str) ==
  LET fragments == Split(str)
  IN [i \in 1..(Len(fragments) - 1) |-> Join(SubSeq(fragments, i + 1, Len(fragments)))]

\* Lines 304-305: ['.'.join(fragments[i:]) for i in range(0, len(fragments))]
base_domain_name_guesses(str) ==
  LET fragments == Split(str)
  IN [i \in 1..Len(fragments) |-> Join(SubSeq(fragments, i, Len(fragments)))]

NoGuesses == <<>>

InitGuess ==
  /\ domain \in DomainStrings
  /\ guesses = NoGuesses

\* base_domain_name_guesses(domain)
Guess ==
  /\ guesses = NoGuesses
  /\ guesses' = <<base_domain_name_guesses(domain)>>
  /\ UNCHANGED domain

NextGuess == Guess

InitGuessIdle ==
  /\ domain = <<>>
  /\ guesses = NoGuesses

\* -------------------------------------------------- paths and the file system

\* Strings that are paths are sequences of components: a first component
\* "/" makes the path absolute, a first component "~" stands for the user's
\* home directory; the empty sequence is the empty string.
Home == <<"/", "home">>
Cwd == <<"/", "work">>
EmptyString == <<>>

\* What a user may type or configure as the path of the credentials file.
UserPaths == {<<"/", "home", "creds.ini">>, <<"~", "creds.ini">>, <<"creds.ini">>,
              <<"/", "work", "creds.ini">>}

\* os.path.expanduser(path)
expanduser(path) == IF path # <<>> /\ path[1] = "~" THEN Home \o Tail(path) ELSE path

\* os.path.isabs(path)
isabs(path) == path # <<>> /\ path[1] = "/"

\* os.path.abspath(path)
abspath(path) == IF isabs(path) THEN path ELSE Cwd \o path

\* File type and permission bits of st_mode, as in stat.py.
S_IFDIR == 16384
S_IFREG == 32768
S_IFLNK == 40960
S_IRWXO == 7

\* stat.S_IFMT(mode) and stat.S_IMODE(mode)
S_IFMT(mode) == (mode \div 4096) * 4096
S_IMODE(mode) == mode % 4096

\* permissions & stat.S_IRWXO: the three lowest bits
AndRWXO(permissions) == permissions % (S_IRWXO + 1)

\* Permission bits of regular files: 0640 and 0644.
FileModes == {416, 420}

\* What a path of the file system is: `lstat' is the st_mode of the path
\* itself and `stat' the st_mode of what it resolves to, 0 when there is
\* nothing.  A symbolic link has mode 0777 of its own and resolves to
\* nothing, to a directory or to a regular file.
Entries ==
  LET absent == 0
      directory == S_IFDIR + 493
      files == {S_IFREG + mode : mode \in FileModes}
  IN {[lstat |-> absent, stat |-> absent], [lstat |-> directory, stat |-> directory]}
     \cup {[lstat |-> file, stat |-> file] : file \in files}
     \cup {[lstat |-> S_IFLNK + 511, stat |-> target] :
             target \in {absent, directory} \cup files}

FsPaths == {Home \o <<"creds.ini">>, Cwd \o <<"creds.ini">>}

FileSystems == [FsPaths -> Entries]

\* The entry a path names for the operating system: relative paths are
\* taken from the working directory and "~" is a name like any other.
Lookup(files, path) ==
  LET absolute == abspath(path)
  IN IF absolute \in DOMAIN files THEN files[absolute]
     ELSE IF absolute \in {Home, Cwd} THEN [lstat |-> S_IFDIR + 493, stat |-> S_IFDIR + 493]
     ELSE [lstat |-> 0, stat |-> 0]

\* os.path.exists(path): os.stat(path) succeeds
exists(files, path) == Lookup(files, path).stat # 0

\* os.path.isfile(path): stat.S_ISREG(os.stat(path).st_mode)
isfile(files, path) == S_IFMT(Lookup(files, path).stat) = S_IFREG

\* os.lstat(path).st_mode
lstat(files, path) == Lookup(files, path).lstat

NoError == [kind |-> "", path |-> <<>>, label |-> "", messages |-> <<>>]

PluginError(kind, path) == [kind |-> kind, path |-> path, label |-> "", messages |-> <<>>]

\* Lines 269-276: validate_file(filename), the PluginError it raises or NoError.
validate_file(files, filename) ==
  IF ~exists(files, filename) THEN PluginError("File not found", filename)
  ELSE IF ~isfile(files, filename) THEN PluginError("Path is not a file", filename)
  ELSE NoError

\* Lines 279-286: validate_file_permissions(filename), the PluginError it
\* raises or NoError, and the warnings it logs.
validate_file_permissions(files, filename) ==
  LET error == validate_file(files, filename)
      permissions == S_IMODE(lstat(files, filename))
  IN IF error # NoError THEN [error |-> error, warnings |-> <<>>]
     ELSE [error |-> NoError,
           warnings |-> IF AndRWXO(permissions) # 0 THEN <<filename>> ELSE <<>>]

\* Lines 216-225: CredentialsConfiguration(filename, mapper): the error
\* raised or the object built, <<[filename, confobj, mapper]>>, and the
\* warnings logged.
CredentialsConfiguration(files, content, filename, map) ==
  LET validated == validate_file_permissions(files, filename)
  IN IF validated.error # NoError
     THEN [error |-> validated.error, warnings |-> validated.warnings, object |-> <<>>]
     ELSE [error |-> NoError, warnings |-> validated.warnings,
           object |-> <<[filename |-> filename, confobj |-> content, mapper |-> map]>>]

\* Contents of a credentials file: no key at all, every key set, and every
\* key there with one of them empty.
FileContents ==
  {<<>>,
   [key \in Keys |-> "s3cret"],
   [key \in Keys |-> IF key = DestNames[1] THEN "" ELSE "s3cret"]}

\* ------------------------------------------- configuration and prompts

ConfigKeys == {"credentials", "email"}

\* The label the plugin passes for a key.
LabelOf(key) == IF key = "credentials" THEN "credentials INI file" ELSE "email address"

\* self.dest(key): the name of the attribute of self.config that holds key.
dest(key) == IF key = "credentials" THEN "dns_credentials" ELSE "dns_email"

\* A configuration value is <<>> for None and <<string>> for a string.
None == <<>>

\* Python's `not configured_value': None and the empty string are false.
IsFalsy(value) == value = None \/ value = <<EmptyString>>

\* self.conf(key): getattr(self.config, self.dest(key))
conf(cfg, key) == cfg[dest(key)]

\* setattr(self.config, self.dest(key), value)
setattr(cfg, key, value) == [cfg EXCEPT ![dest(key)] = <<value>>]

Configs ==
  {cfg \in [{dest(key) : key \in ConfigKeys} ->
              {None, <<EmptyString>>, <<<<"me@example.org">>>>} \cup {<<path>> : path \in UserPaths}] :
     /\ cfg[dest("email")] \in {None, <<<<"me@example.org">>>>}
     /\ cfg[dest("credentials")] \in {None, <<EmptyString>>} \cup {<<path>> : path \in UserPaths}}

OK == "ok"
CANCEL == "cancel"

\* What the user may answer to a prompt for a value and for a path.
DataAnswers == {EmptyString, <<"me@example.org">>}
FileAnswers == {EmptyString} \cup UserPaths

\* Lines 172-174: the validator of _prompt_for_data accepts what is not empty.
DataValidator(answer) == answer # EmptyString

\* Lines 196-200: the validator of _prompt_for_file accepts a path that is
\* not empty and, user-expanded, names a file.
FileValidator(files, filename) ==
  filename # EmptyString /\ validate_file(files, expanduser(filename)) = NoError

\* ops.validated_input and ops.validated_directory: the (code, response)
\* pairs they may return: OK with an answer the validator accepted, or the
\* user's cancellation.
validated_input(accepted) ==
  {[code |-> OK, response |-> answer] : answer \in accepted}
    \cup {[code |-> CANCEL, response |-> EmptyString]}

RequiredToProceed(label) ==
  [kind |-> "required to proceed", path |-> <<>>, label |-> label, messages |-> <<>>]

\* A variant that returns the response whatever the code.
prompt_IgnoreCode(label, outcome) == [error |-> NoError, value |-> outcome.response]

\* Lines 181-184 and 207-210: the end of _prompt_for_data and of
\* _prompt_for_file: the response when the code is OK, a PluginError
\* otherwise.
prompt(label, outcome) ==
  IF outcome.code = OK
  THEN [error |-> NoError, value |-> outcome.response]
  ELSE [error |-> RequiredToProceed(label), value |-> EmptyString]

\* A variant that prompts only when the value is None.
configure_OnlyNone(cfg, key, label, outcome) ==
  LET configured_value == conf(cfg, key)
  IN IF configured_value = None
     THEN LET prompted == prompt(label, outcome)
          IN IF prompted.error # NoError
             THEN [config |-> cfg, prompts |-> <<outcome>>, error |-> prompted.error]
             ELSE [config |-> setattr(cfg, key, prompted.value),
                   prompts |-> <<outcome>>, error |-> NoError]
     ELSE [config |-> cfg, prompts |-> <<>>, error |-> NoError]

\* Lines 109-123: _configure(key, label), given what the prompt returns if
\* there is one.
configure(cfg, key, label, outcome) ==
  LET configured_value == conf(cfg, key)
  IN IF IsFalsy(configured_value)
     THEN LET prompted == prompt(label, outcome)
          IN IF prompted.error # NoError
             THEN [config |-> cfg, prompts |-> <<outcome>>, error |-> prompted.error]
             ELSE [config |-> setattr(cfg, key, prompted.value),
                   prompts |-> <<outcome>>, error |-> NoError]
     ELSE [config |-> cfg, prompts |-> <<>>, error |-> NoError]

\* Lines 125-139: _configure_file(key, label), given what the prompt returns
\* if there is one.
configure_file(cfg, key, label, outcome) ==
  LET configured_value == conf(cfg, key)
  IN IF IsFalsy(configured_value)
     THEN LET prompted == prompt(label, outcome)
          IN IF prompted.error # NoError
             THEN [config |-> cfg, prompts |-> <<outcome>>, error |-> prompted.error]
             ELSE [config |-> setattr(cfg, key, abspath(expanduser(prompted.value))),
                   prompts |-> <<outcome>>, error |-> NoError]
     ELSE [config |-> cfg, prompts |-> <<>>, error |-> NoError]

\* `if required_variables:' is true of a dict that is neither None nor empty.
IsRequired(required) == required # None /\ required[1] # <<>>

\* The PluginError of lines 244-250.
MissingError(filename, outcome) ==
  [kind |-> "Missing " \o outcome.noun, path |-> filename, label |-> "",
   messages |-> outcome.messages]

\* A variant that requires whenever required_variables is not None.
configure_credentials_NotNone(cfg, files, content, key, label, required, outcome) ==
  LET configured == configure_file(cfg, key, label, outcome)
      built == IF conf(configured.config, key) = None
               THEN [error |-> NoError, warnings |-> <<>>, object |-> <<>>]
               ELSE CredentialsConfiguration(files, content,
                                             conf(configured.config, key)[1], DestMapper)
      result == [config |-> configured.config, prompts |-> configured.prompts,
                 warnings |-> <<>>, object |-> <<>>, require_called |-> FALSE,
                 error |-> configured.error]
  IN IF configured.error # NoError THEN result
     ELSE IF built.error # NoError
     THEN [result EXCEPT !.error = built.error, !.warnings = built.warnings]
     ELSE IF required # None
     THEN LET required_outcome == RequireOutcome(built.object[1].confobj,
                                                 built.object[1].mapper, required[1])
          IN IF required_outcome.raised
             THEN [result EXCEPT !.warnings = built.warnings, !.require_called = TRUE,
                                 !.error = MissingError(built.object[1].filename,
                                                        required_outcome)]
             ELSE [result EXCEPT !.warnings = built.warnings, !.require_called = TRUE,
                                 !.object = built.object]
     ELSE [result EXCEPT !.warnings = built.warnings, !.object = built.object]

\* Lines 141-160: _configure_credentials(key, label, required_variables),
\* given what the prompt returns if there is one.
configure_credentials(cfg, files, content, key, label, required, outcome) ==
  LET configured == configure_file(cfg, key, label, outcome)
      built == IF conf(configured.config, key) = None
               THEN [error |-> NoError, warnings |-> <<>>, object |-> <<>>]
               ELSE CredentialsConfiguration(files, content,
                                             conf(configured.config, key)[1], DestMapper)
      result == [config |-> configured.config, prompts |-> configured.prompts,
                 warnings |-> <<>>, object |-> <<>>, require_called |-> FALSE,
                 error |-> configured.error]
  IN IF configured.error # NoError THEN result
     ELSE IF built.error # NoError
     THEN [result EXCEPT !.error = built.error, !.warnings = built.warnings]
     ELSE IF IsRequired(required)
     THEN LET required_outcome == RequireOutcome(built.object[1].confobj,
                                                 built.object[1].mapper, required[1])
          IN IF required_outcome.raised
             THEN [result EXCEPT !.warnings = built.warnings, !.require_called = TRUE,
                                 !.error = MissingError(built.object[1].filename,
                                                        required_outcome)]
             ELSE [result EXCEPT !.warnings = built.warnings, !.require_called = TRUE,
                                 !.object = built.object]
     ELSE [result EXCEPT !.warnings = built.warnings, !.object = built.object]

\* What a caller hands over as required_variables: None or a dict.
RequiredChoices ==
  {None} \cup {<<req>> : req \in {r \in RequiredDicts :
                                   \A n \in 1..Len(r) : r[n].desc = "API key"}}

\* ----------------------------------------------------- calls on files

\* Each behaviour makes one call, from any file system and configuration: what
\* a call leaves behind is again one of the configurations a call may start
\* from.

NoCall ==
  [op |-> "none", key |-> "", label |-> "", filename |-> <<>>, required |-> <<>>,
   config_before |-> <<>>, prompts |-> <<>>, warnings |-> <<>>, object |-> <<>>,
   require_called |-> FALSE, error |-> NoError, returned |-> FALSE]

\* validate_file_permissions(filename), called on its own
ValidateFilePermissions ==
  \E filename \in UserPaths :
    LET validated == validate_file_permissions(fs, filename)
    IN /\ last = NoCall
       /\ last' = [NoCall EXCEPT !.op = "validate_file_permissions",
                                 !.filename = filename,
                                 !.config_before = config,
                                 !.warnings = validated.warnings,
                                 !.error = validated.error,
                                 !.returned = (validated.error = NoError)]
       /\ UNCHANGED <<fs, file_content, config>>

\* CredentialsConfiguration(filename, mapper), called on its own
Construct ==
  \E filename \in UserPaths, map \in Mappers :
    LET built == CredentialsConfiguration(fs, file_content, filename, map)
    IN /\ last = NoCall
       /\ last' = [NoCall EXCEPT !.op = "CredentialsConfiguration",
                                 !.filename = filename,
                                 !.config_before = config,
                                 !.warnings = built.warnings,
                                 !.object = built.object,
                                 !.error = built.error,
                                 !.returned = (built.error = NoError)]
       /\ UNCHANGED <<fs, file_content, config>>

\* self._configure(key, label)
Configure ==
  \E key \in ConfigKeys :
    \E outcome \in validated_input({answer \in DataAnswers : DataValidator(answer)}) :
      LET result == configure(config, key, LabelOf(key), outcome)
      IN /\ last = NoCall
         /\ config' = result.config
         /\ last' = [NoCall EXCEPT !.op = "_configure", !.key = key,
                                   !.label = LabelOf(key),
                                   !.config_before = config,
                                   !.prompts = result.prompts,
                                   !.error = result.error,
                                   !.returned = (result.error = NoError)]
         /\ UNCHANGED <<fs, file_content>>

\* self._configure_file(key, label)
ConfigureFile ==
  \E key \in ConfigKeys :
    \E outcome \in validated_input({answer \in FileAnswers : FileValidator(fs, answer)}) :
      LET result == configure_file(config, key, LabelOf(key), outcome)
      IN /\ last = NoCall
         /\ config' = result.config
         /\ last' = [NoCall EXCEPT !.op = "_configure_file", !.key = key,
                                   !.label = LabelOf(key),
                                   !.config_before = config,
                                   !.prompts = result.prompts,
                                   !.error = result.error,
                                   !.returned = (result.error = NoError)]
         /\ UNCHANGED <<fs, file_content>>

\* self._configure_credentials(key, label, required_variables)
ConfigureCredentials ==
  \E required \in RequiredChoices :
    \E outcome \in validated_input({answer \in FileAnswers : FileValidator(fs, answer)}) :
      LET key == "credentials"
          result == configure_credentials(config, fs, file_content, key, LabelOf(key),
                                          required, outcome)
      IN /\ last = NoCall
         /\ config' = result.config
         /\ last' = [NoCall EXCEPT !.op = "_configure_credentials", !.key = key,
                                   !.label = LabelOf(key),
                                   !.required = required,
                                   !.config_before = config,
                                   !.prompts = result.prompts,
                                   !.warnings = result.warnings,
                                   !.object = result.object,
                                   !.require_called = result.require_called,
                                   !.error = result.error,
                                   !.returned = (result.error = NoError)]
         /\ UNCHANGED <<fs, file_content>>

\* -------------------------------------------------------- specifications

InitFileIdle ==
  /\ fs = [path \in FsPaths |-> [lstat |-> 0, stat |-> 0]]
  /\ file_content = <<>>
  /\ config = <<>>
  /\ last = NoCall

Init == InitAuth /\ InitCredIdle /\ InitGuessIdle /\ InitFileIdle

Next == NextAuth /\ UNCHANGED <<credVars, guessVars, fileVars>>

\* perform and cleanup on the authenticator instances
Spec == Init /\ [][Next]_vars

InitAuthIdle ==
  /\ InitAuth
  /\ propagation_seconds = DefaultPropagationSeconds
  /\ self = CHOOSE inst \in Instances : TRUE

\* require over every credentials file, mapper and dict of required variables
InitRequire == InitAuthIdle /\ InitCred /\ InitGuessIdle /\ InitFileIdle

NextRequire == NextCred /\ UNCHANGED <<authVars, guessVars, fileVars>>

SpecRequire == InitRequire /\ [][NextRequire]_vars

\* base_domain_name_guesses over every domain string
InitGuesses == InitAuthIdle /\ InitCredIdle /\ InitGuess /\ InitFileIdle

NextGuesses == NextGuess /\ UNCHANGED <<authVars, credVars, fileVars>>

SpecGuess == InitGuesses /\ [][NextGuesses]_vars

\* the calls on files and configuration over every file system
InitFile ==
  /\ fs \in FileSystems
  /\ file_content \in FileContents
  /\ config \in Configs
  /\ last = NoCall

InitFiles == InitAuthIdle /\ InitCredIdle /\ InitGuessIdle /\ InitFile

NextFile ==
  \/ ValidateFilePermissions
  \/ Construct
  \/ Configure
  \/ ConfigureFile
  \/ ConfigureCredentials

NextFiles == NextFile /\ UNCHANGED <<authVars, credVars, guessVars>>

SpecFiles == InitFiles /\ [][NextFiles]_vars

\* ------------------------------------------------ properties of perform / cleanup

OtherInstance(inst) == CHOOSE other \in Instances : other # inst

CallsOf(call) == {k \in 1..Len(trace) : trace[k].call = call}

\* C1: a perform whose _setup_credentials and every _perform succeeded made
\* one setup call, then one _perform per challenge in input order with that
\* challenge's (domain, validation_domain_name, validation), then slept for
\* the configured propagation seconds, and returned one response per
\* challenge, the i-th response being that of the i-th challenge.
C1_PerformAllInOrder ==
  (op = "perform" /\ pc = "idle" /\ \A k \in 1..Len(trace) : trace[k].ok) =>
    /\ status = "returned"
    /\ Len(trace) = Len(achalls) + 2
    /\ trace[1] = Event("setup", NoArgs, 0, TRUE)
    /\ \A i \in 1..Len(achalls) :
         trace[i + 1] = Event("create", RecordArgs(achalls[i]), 0, TRUE)
    /\ trace[Len(achalls) + 2] = Event("sleep", NoArgs, propagation_seconds, TRUE)
    /\ Len(returned) = Len(achalls)
    /\ \A i \in 1..Len(achalls) : returned[i] = Response(achalls[i])

C1_Witness ==
  /\ op = "perform" /\ pc = "idle" /\ status = "returned"
  /\ Len(achalls) = 2 /\ achalls[1] # achalls[2]
  /\ Len(returned) = 2
  /\ propagation_seconds = DefaultPropagationSeconds

\* C2: when _perform raises on the k-th challenge of a perform, the calls to
\* _perform are exactly those for challenges 1..k in order, of which the
\* first k-1 returned; no later challenge is handed to _perform, there is no
\* sleep, perform raises without returning responses, and the instance's
\* flag is set.
C2_PerformFailsAtK ==
  (op = "perform" /\ \E k \in CallsOf("create") : ~trace[k].ok) =>
    LET k == Len(trace) - 1
    IN /\ pc = "idle"
       /\ status = "raised"
       /\ returned = <<>>
       /\ k \in 1..Len(achalls)
       /\ trace[1] = Event("setup", NoArgs, 0, TRUE)
       /\ \A j \in 1..k : trace[j + 1] = Event("create", RecordArgs(achalls[j]), 0, j < k)
       /\ attempt_cleanup[self]

C2_Witness ==
  /\ op = "perform" /\ status = "raised"
  /\ Len(achalls) = MaxBatch
  /\ Len(trace) = 2
  /\ ~trace[2].ok
  /\ ~attempt_cleanup[OtherInstance(self)]

\* C3: a cleanup on an instance on which perform was never invoked makes no
\* call to _cleanup and returns normally, whatever its argument.
C3_CleanupNeverPerformed ==
  (op = "cleanup" /\ ~ever_performed[self]) =>
    /\ trace = <<>>
    /\ pc = "idle"
    /\ status = "returned"

C3_Witness ==
  /\ op = "cleanup" /\ ~ever_performed[self]
  /\ Len(achalls) = 2
  /\ attempt_cleanup[OtherInstance(self)]

\* C4 (as claimed): once a perform on an instance has ended, however it
\* ended, the instance's flag is set.
C4_FlagAfterAnyPerform ==
  pc = "idle" => \A i \in Instances : ever_performed[i] => attempt_cleanup[i]

\* C4 (amended): between calls an instance's flag is set exactly when some
\* perform on it got past _setup_credentials, whether that perform then
\* returned responses or raised in _perform; a perform that raises in
\* _setup_credentials leaves the flag as it was.
C4_FlagIffSetupPassed ==
  pc = "idle" => \A i \in Instances : attempt_cleanup[i] <=> setup_passed[i]

C4_Witness ==
  /\ pc = "idle" /\ op = "perform" /\ status = "raised"
  /\ Len(trace) >= 2
  /\ attempt_cleanup[self]
  /\ ever_performed[OtherInstance(self)]
  /\ ~attempt_cleanup[OtherInstance(self)]

\* C5 (as claimed): a cleanup on an instance whose flag is set hands every
\* challenge of its argument to _cleanup, once each and in input order.
C5_CleanupDeletesAll ==
  (op = "cleanup" /\ pc = "idle" /\ attempt_cleanup[self]) =>
    /\ Len(trace) = Len(achalls)
    /\ \A i \in 1..Len(achalls) : trace[i].call = "delete" /\ trace[i].args = RecordArgs(achalls[i])

\* C5 (amended): on an instance whose flag is set, the calls cleanup makes to
\* _cleanup are for the challenges of its argument in input order, once each,
\* with that challenge's (domain, validation_domain_name, validation), up to
\* and including the first call that raises; when no call raises, cleanup
\* returns after having handed every challenge to _cleanup.
C5_CleanupDeletesInOrder ==
  (op = "cleanup" /\ attempt_cleanup[self]) =>
    /\ Len(trace) <= Len(achalls)
    /\ \A i \in 1..Len(trace) :
         /\ trace[i].call = "delete"
         /\ trace[i].args = RecordArgs(achalls[i])
         /\ i < Len(trace) => trace[i].ok
    /\ pc = "idle" =>
         \/ status = "returned" /\ Len(trace) = Len(achalls)
                                /\ \A i \in 1..Len(trace) : trace[i].ok
         \/ status = "raised" /\ Len(trace) >= 1 /\ ~trace[Len(trace)].ok
    /\ pc # "idle" => \A i \in 1..Len(trace) : trace[i].ok

C5_Witness ==
  /\ op = "cleanup" /\ pc = "idle" /\ status = "returned"
  /\ attempt_cleanup[self]
  /\ Len(achalls) = 2 /\ achalls[1] # achalls[2]
  /\ Len(trace) = 2

\* C6 (as claimed): every call cleanup makes to _cleanup is for a challenge
\* that an earlier perform on the same instance handed to _perform.
C6_DeletesOnlyAttempted ==
  op = "cleanup" =>
    \A k \in CallsOf("delete") : <<self, trace[k].args>> \in attempted

\* C6 (amended): every call cleanup makes to _cleanup is made on an instance
\* on which an earlier perform got past _setup_credentials, and is for a
\* challenge of cleanup's own argument; that challenge need not have been
\* handed to _perform.
C6_DeletesOnlyAfterSetup ==
  op = "cleanup" =>
    \A k \in CallsOf("delete") :
      /\ setup_passed[self]
      /\ \E i \in 1..Len(achalls) : trace[k].args = RecordArgs(achalls[i])

C6_Witness ==
  /\ op = "cleanup"
  /\ setup_passed[self]
  /\ CallsOf("delete") # {}
  /\ \E k \in CallsOf("delete") : <<self, trace[k].args>> \notin attempted
  /\ \E k \in CallsOf("delete") : <<self, trace[k].args>> \in attempted

\* C7: every perform calls _setup_credentials exactly once, before anything
\* else it does; when that call raises, perform raises having made no call
\* to _perform and without sleeping.
C7_SetupOnceAndFirst ==
  op = "perform" =>
    /\ pc = "perform_setup" => trace = <<>>
    /\ pc # "perform_setup" =>
         /\ CallsOf("setup") = {1}
         /\ ~trace[1].ok => /\ Len(trace) = 1
                            /\ pc = "idle"
                            /\ status = "raised"
                            /\ returned = <<>>
         /\ Len(trace) > 1 => trace[1].ok

C7_Witness ==
  /\ op = "perform" /\ pc = "idle" /\ status = "raised"
  /\ Len(trace) = 1 /\ ~trace[1].ok
  /\ Len(achalls) = 2

\* C8: a flag that is set stays set under every step of perform and cleanup,
\* and no step of cleanup changes any flag.
C8_FlagMonotone ==
  [][/\ \A i \in Instances : attempt_cleanup[i] => attempt_cleanup'[i]
     /\ op' = "cleanup" => attempt_cleanup' = attempt_cleanup]_vars

C8_Witness ==
  /\ op = "cleanup" /\ pc = "idle"
  /\ attempt_cleanup[self]
  /\ Len(trace) >= 1
  /\ ever_performed[OtherInstance(self)]

\* C13: cleanup does not catch what _cleanup raises: when the flag is set
\* and _cleanup raises on the j-th challenge, cleanup raises at once, the
\* failed call is its last call, and challenges j+1..N are never handed to
\* _cleanup.
C13_CleanupFailurePropagates ==
  (op = "cleanup" /\ \E j \in CallsOf("delete") : ~trace[j].ok) =>
    LET j == CHOOSE n \in CallsOf("delete") : ~trace[n].ok
    IN /\ pc = "idle"
       /\ status = "raised"
       /\ attempt_cleanup[self]
       /\ j = Len(trace)
       /\ j <= Len(achalls)
       /\ trace[j].args = RecordArgs(achalls[j])
       /\ \A n \in 1..(j - 1) : trace[n].ok

C13_Witness ==
  /\ op = "cleanup" /\ status = "raised"
  /\ Len(achalls) = 2 /\ achalls[1] # achalls[2]
  /\ Len(trace) = 1 /\ ~trace[1].ok

\* C17: the flag belongs to the instance: whatever is performed on one
\* instance, the flag of an instance on which perform was never invoked is
\* unset, and a cleanup on that instance makes no call to _cleanup.
C17_FlagPerInstance ==
  /\ \A i \in Instances : ~ever_performed[i] => ~attempt_cleanup[i]
  /\ \A i \in Instances :
       (op = "cleanup" /\ self = i /\ ~ever_performed[i]
          /\ attempt_cleanup[OtherInstance(i)]) => CallsOf("delete") = {}

C17_Witness ==
  /\ op = "cleanup" /\ pc = "idle" /\ status = "returned"
  /\ ~ever_performed[self] /\ ~attempt_cleanup[self]
  /\ attempt_cleanup[OtherInstance(self)]
  /\ \E args \in {RecordArgs(c) : c \in Challenges} : <<OtherInstance(self), args>> \in attempted
  /\ achalls # <<>>

\* C18: a perform sleeps at most once, after its last call to _perform and
\* as the last thing before it returns; it does not sleep when
\* _setup_credentials or a _perform raised; a perform that returns has slept
\* exactly once, also with no challenge at all.
C18_SleepOnceAfterCreates ==
  op = "perform" =>
    /\ Cardinality(CallsOf("sleep")) <= 1
    /\ \A k \in CallsOf("sleep") :
         /\ k = Len(trace)
         /\ k = Len(achalls) + 2
         /\ \A n \in 1..(k - 1) : trace[n].ok
         /\ CallsOf("create") = 2..(k - 1)
         /\ trace[k].secs = propagation_seconds
         /\ pc \in {"perform_return", "idle"}
    /\ (\E n \in 1..Len(trace) : ~trace[n].ok) => CallsOf("sleep") = {}
    /\ (pc = "idle" /\ status = "returned") => Cardinality(CallsOf("sleep")) = 1
    /\ pc = "perform_return" => Cardinality(CallsOf("sleep")) = 1

C18_Witness ==
  /\ op = "perform" /\ pc = "idle" /\ status = "returned"
  /\ achalls = <<>>
  /\ CallsOf("sleep") = {2}
  /\ propagation_seconds = 0

\* ------------------------------------------------------ properties of require

\* The positions in required_variables whose mapped key is missing from the
\* file, and those whose mapped key is there with an empty value.
AbsentVars == {n \in 1..Len(required_variables) :
                 mapper[required_variables[n].var] \notin DOMAIN confobj}
EmptyVars == {n \in 1..Len(required_variables) :
                /\ mapper[required_variables[n].var] \in DOMAIN confobj
                /\ confobj[mapper[required_variables[n].var]] = ""}

ExpectedMessage(n) ==
  [kind |-> IF n \in AbsentVars THEN "not found" ELSE "not set",
   key |-> mapper[required_variables[n].var],
   desc |-> required_variables[n].desc]

\* C9: require looks at every required variable: it raises one error iff
\* some required variable's mapped key is missing from the file or has an
\* empty value; the error holds exactly one message per such variable, with
\* the mapped key, the variable's description and "not found" for a missing
\* key or "not set" for an empty one, and no message for any other variable;
\* it returns without error iff every variable is there and not empty.
C9_RequireAggregates ==
  require_result # NotCalled =>
    LET outcome == require_result[1]
        failing == AbsentVars \cup EmptyVars
    IN /\ outcome.raised <=> failing # {}
       /\ Len(outcome.messages) = Cardinality(failing)
       /\ \A n \in failing :
            Cardinality({m \in 1..Len(outcome.messages) :
                           outcome.messages[m] = ExpectedMessage(n)}) = 1
       /\ \A m \in 1..Len(outcome.messages) :
            \E n \in failing : outcome.messages[m] = ExpectedMessage(n)
       /\ ~outcome.raised => outcome.messages = <<>>

C9_Witness ==
  /\ require_result # NotCalled
  /\ require_result[1].raised
  /\ Len(required_variables) = 2
  /\ AbsentVars # {} /\ EmptyVars # {}
  /\ mapper = DestMapper

RequiredVars == {required_variables[n].var : n \in 1..Len(required_variables)}

\* C19: require and conf agree and only read: conf(var) yields what the file
\* holds under mapper(var), nothing when the key is missing; for a dict of
\* required variables that is not empty, require returns without error iff
\* conf yields a value that is not empty for each of them; no call of require
\* or conf changes the loaded entries or the mapper, and require called again
\* ends as it did the first time.
C19_RequireAgreesWithConf ==
  /\ [](/\ \A var \in Vars :
             conf_got[var] # NotCalled =>
               conf_got[var][1] = IF mapper[var] \in DOMAIN confobj
                             THEN <<confobj[mapper[var]]>> ELSE <<>>
        /\ (/\ require_result # NotCalled
            /\ required_variables # <<>>
            /\ \A var \in RequiredVars : conf_got[var] # NotCalled) =>
             (~require_result[1].raised <=>
                \A var \in RequiredVars : conf_got[var][1] # <<>> /\ conf_got[var][1] # <<"">>)
        /\ require_previous # NotCalled => require_result = require_previous)
  /\ [][confobj' = confobj /\ mapper' = mapper]_vars

C19_Witness ==
  /\ require_previous # NotCalled
  /\ ~require_result[1].raised
  /\ Len(required_variables) = 2
  /\ \A var \in RequiredVars : conf_got[var] # NotCalled
  /\ mapper = DestMapper
  /\ \E var \in Vars : var \in DOMAIN confobj /\ confobj[var] = ""

\* ------------------------------------- properties of base_domain_name_guesses

Dots(str) == {k \in 1..Len(str) : str[k] = "."}

\* str without its first n labels: what follows the n-th dot.
WithoutLabels(str, n) ==
  IF n = 0 THEN str
  ELSE LET k == CHOOSE d \in Dots(str) : Cardinality({j \in Dots(str) : j <= d}) = n
       IN SubSeq(str, k + 1, Len(str))

\* C10: the guesses for a domain are one more than the domain has dots; the
\* first is the domain, the last is the domain's final label, and the i-th
\* (from 0) is the domain without its first i labels; a domain without dots,
\* the empty string included, yields itself alone.
C10_GuessesAreSuffixes ==
  guesses # NoGuesses =>
    LET n == Cardinality(Dots(domain))
        result == guesses[1]
    IN /\ Len(result) = n + 1
       /\ result[1] = domain
       /\ result[n + 1] = WithoutLabels(domain, n)
       /\ \A j \in 1..Len(result[n + 1]) : result[n + 1][j] # "."
       /\ \A i \in 0..n : result[i + 1] = WithoutLabels(domain, i)
       /\ n = 0 => result = <<domain>>

C10_Witness ==
  /\ guesses # NoGuesses
  /\ Len(guesses[1]) = 3
  /\ Len(domain) = MaxDomainLen
  /\ guesses[1][3] # <<>>
  /\ guesses[1][2] # guesses[1][3]

\* ------------------------------------ properties of files and configuration

\* C11 (as claimed): validate_file_permissions and the construction of a
\* CredentialsConfiguration end in one of three ways, by what the path is:
\* nothing there, a "File not found" error; something that is not a regular
\* file, a "Path is not a file" error; a regular file, no error whatever its
\* mode, and a warning iff its mode has one of the bits for others; on an
\* error no credentials are loaded.
C11_OutcomeByPathKind ==
  last.op \in {"validate_file_permissions", "CredentialsConfiguration"} =>
    LET mode == Lookup(fs, last.filename).stat
    IN /\ mode = 0 =>
            /\ last.error.kind = "File not found"
            /\ last.object = <<>> /\ last.warnings = <<>>
       /\ (mode # 0 /\ S_IFMT(mode) # S_IFREG) =>
            /\ last.error.kind = "Path is not a file"
            /\ last.object = <<>> /\ last.warnings = <<>>
       /\ S_IFMT(mode) = S_IFREG =>
            /\ last.error = NoError
            /\ last.returned
            /\ last.warnings # <<>> <=> S_IMODE(mode) % 8 # 0

\* C12: _configure_credentials with required_variables None or empty never
\* calls require, and returns the CredentialsConfiguration of the configured
\* file when that path names a regular file, be the file without any key;
\* with required variables it returns only when require found each of them
\* set, and raises require's error otherwise.
C12_RequireOnlyWhenAsked ==
  last.op = "_configure_credentials" =>
    LET value == conf(config, last.key)
        usable == /\ last.error.kind # "required to proceed"
                  /\ value # None
                  /\ isfile(fs, value[1])
        object == [filename |-> value[1], confobj |-> file_content, mapper |-> DestMapper]
        failing == IF IsRequired(last.required)
                   THEN {n \in 1..Len(last.required[1]) :
                           \/ DestMapper[last.required[1][n].var] \notin DOMAIN file_content
                           \/ file_content[DestMapper[last.required[1][n].var]] = ""}
                   ELSE {}
    IN /\ ~IsRequired(last.required) =>
            /\ ~last.require_called
            /\ usable => last.returned /\ last.object = <<object>>
       /\ IsRequired(last.required) =>
            /\ last.returned => /\ last.require_called
                                /\ failing = {}
                                /\ last.object = <<object>>
            /\ (usable /\ failing = {}) => last.returned
            /\ (usable /\ failing # {}) =>
                 /\ ~last.returned
                 /\ last.object = <<>>
                 /\ last.require_called
                 /\ last.error.kind \in {"Missing property", "Missing properties"}
                 /\ Len(last.error.messages) = Cardinality(failing)

C12_Witness ==
  /\ last.op = "_configure_credentials"
  /\ last.required = <<<<>>>>
  /\ file_content = <<>>
  /\ last.returned
  /\ last.object # <<>>
  /\ last.prompts # <<>>

\* C14 (as claimed): when _configure_file or _configure_credentials has
\* returned, the value of the key is an absolute, user-expanded path, whether
\* it was prompted for or configured before.
C14_StoredPathAbsolute ==
  (last.op \in {"_configure_file", "_configure_credentials"} /\ last.returned) =>
    LET value == conf(config, last.key)
    IN /\ value # None
       /\ isabs(value[1])
       /\ expanduser(value[1]) = value[1]

\* C15: _configure of a key whose value is set and not empty does not prompt
\* and leaves the configuration as it is; of a key whose value is None or
\* empty it prompts exactly once and, when the prompt returns OK with an
\* answer, the key holds that answer afterwards, which is not empty, and the
\* other keys are as before.
C15_ConfigureValue ==
  last.op = "_configure" =>
    LET before == last.config_before[dest(last.key)]
    IN /\ (before # None /\ before # <<EmptyString>>) =>
            /\ last.prompts = <<>>
            /\ config = last.config_before
            /\ last.returned
       /\ (before = None \/ before = <<EmptyString>>) =>
            /\ Len(last.prompts) = 1
            /\ last.prompts[1].code = OK =>
                 /\ last.returned
                 /\ config[dest(last.key)] = <<last.prompts[1].response>>
                 /\ last.prompts[1].response # EmptyString
                 /\ \A other \in DOMAIN config :
                      other # dest(last.key) => config[other] = last.config_before[other]

C15_Witness ==
  /\ last.op = "_configure"
  /\ last.config_before[dest(last.key)] = <<EmptyString>>
  /\ Len(last.prompts) = 1
  /\ last.prompts[1].code = OK
  /\ config[dest(last.key)] # <<EmptyString>>

\* C16: when the value is missing and the prompt returns another code than
\* OK, _configure, _configure_file and _configure_credentials raise a
\* PluginError "<label> required to proceed" and leave the configuration as
\* it was; _configure_credentials then builds no CredentialsConfiguration
\* and does not call require.
C16_PromptNotOk ==
  (last.prompts # <<>> /\ last.prompts[1].code # OK) =>
    /\ ~last.returned
    /\ last.error = RequiredToProceed(LabelOf(last.key))
    /\ config = last.config_before
    /\ last.object = <<>>
    /\ last.warnings = <<>>
    /\ ~last.require_called

C16_Witness ==
  /\ last.op = "_configure_credentials"
  /\ IsRequired(last.required)
  /\ last.prompts # <<>>
  /\ last.prompts[1].code = CANCEL
  /\ last.config_before[dest(last.key)] = <<EmptyString>>
  /\ \E path \in FsPaths : isfile(fs, path)

====
